---- MODULE Spec2Model ----
(***************************************************************************)
(* A model of the affiliation classification and record-extraction engine  *)
(* of the PubMed paper filter (src/backend_takehome/filter.py).            *)
(*                                                                         *)
(* Python strings are sequences of one-character strings, so that the      *)
(* substring tests, regular expressions, splits and joins of the code are  *)
(* computed character by character.                                        *)
(***************************************************************************)
EXTENDS Integers, Sequences, FiniteSets, TLC

(***************************************************************************)
(* Characters and the str methods the code uses.                           *)
(***************************************************************************)
UpperSeq == <<"A","B","C","D","E","F","G","H","I","J","K","L","M","N","O","P","Q","R","S","T","U","V","W","X","Y","Z">>
LowerSeq == <<"a","b","c","d","e","f","g","h","i","j","k","l","m","n","o","p","q","r","s","t","u","v","w","x","y","z">>
UpperChars == { UpperSeq[k] : k \in 1..26 }
LowerChars == { LowerSeq[k] : k \in 1..26 }
DigitSeq == <<"0","1","2","3","4","5","6","7","8","9">>
DigitChars == { DigitSeq[k] : k \in 1..10 }
AlnumChars == UpperChars \cup LowerChars \cup DigitChars
\* \w of the re module
WordChars == AlnumChars \cup {"_"}
\* the whitespace of str.split(), str.strip() and \s
SpaceChars == {" "}

\* one character of str.lower()
LowerChar(c) ==
  IF c \in UpperChars THEN LowerSeq[CHOOSE k \in 1..26 : UpperSeq[k] = c] ELSE c

\* str.lower()
Lower(s) == [k \in 1..Len(s) |-> LowerChar(s[k])]

\* s[i:j] for 1-based inclusive bounds, empty when j < i
Slice(s, i, j) == IF j < i THEN <<>> ELSE SubSeq(s, i, j)

\* t is found in s at position i
MatchAt(s, i, t) ==
  /\ i >= 1
  /\ i + Len(t) - 1 <= Len(s)
  /\ \A k \in 1..Len(t) : s[i + k - 1] = t[k]

\* the Python test `t in s`
Contains(s, t) == \E i \in 1..(Len(s) - Len(t) + 1) : MatchAt(s, i, t)

\* str.strip()
Strip(s) ==
  IF \A k \in 1..Len(s) : s[k] \in SpaceChars THEN <<>>
  ELSE LET a == CHOOSE i \in 1..Len(s) :
                  /\ s[i] \notin SpaceChars
                  /\ \A k \in 1..(i - 1) : s[k] \in SpaceChars
           b == CHOOSE j \in 1..Len(s) :
                  /\ s[j] \notin SpaceChars
                  /\ \A k \in (j + 1)..Len(s) : s[k] \in SpaceChars
       IN  SubSeq(s, a, b)

\* the pieces of s between the characters of seps, empty pieces kept:
\* str.split(sep) with a one-character sep, re.split of a character class
RECURSIVE SplitOn(_, _)
SplitOn(s, seps) ==
  IF \A k \in 1..Len(s) : s[k] \notin seps THEN <<s>>
  ELSE LET p == CHOOSE i \in 1..Len(s) :
                  /\ s[i] \in seps
                  /\ \A k \in 1..(i - 1) : s[k] \notin seps
       IN  <<Slice(s, 1, p - 1)>> \o SplitOn(Slice(s, p + 1, Len(s)), seps)

\* str.split() without argument: the runs of non-whitespace
Split(s) == SelectSeq(SplitOn(s, SpaceChars), LAMBDA w : w # <<>>)

\* sep.join(parts)
RECURSIVE Join(_, _)
Join(sep, parts) ==
  IF parts = <<>> THEN <<>>
  ELSE IF Len(parts) = 1 THEN parts[1]
  ELSE parts[1] \o sep \o Join(sep, Tail(parts))

(***************************************************************************)
(* The keyword vocabularies.                                               *)
(***************************************************************************)
ACADEMIC_KEYWORDS ==
  { <<"u","n","i","v","e","r","s","i","t","y">>,
    <<"c","o","l","l","e","g","e">>,
    <<"i","n","s","t","i","t","u","t","e">>,
    <<"s","c","h","o","o","l">>,
    <<"a","c","a","d","e","m","y">>,
    <<"f","a","c","u","l","t","y">>,
    <<"h","o","s","p","i","t","a","l">>,
    <<"c","l","i","n","i","c">>,
    <<"m","e","d","i","c","a","l"," ","c","e","n","t","e","r">>,
    <<"h","e","a","l","t","h"," ","c","e","n","t","e","r">>,
    <<"l","a","b","o","r","a","t","o","r","y">>,
    <<"r","e","s","e","a","r","c","h"," ","c","e","n","t","e","r">>,
    <<"n","a","t","i","o","n","a","l">>,
    <<"f","e","d","e","r","a","l">>,
    <<"m","i","n","i","s","t","r","y">>,
    <<"d","e","p","a","r","t","m","e","n","t">>,
    <<"c","e","n","t","e","r"," ","f","o","r">>,
    <<"c","e","n","t","r","e"," ","f","o","r">>,
    <<"i","n","s","t","i","t","u","t","i","o","n">>,
    <<"f","o","u","n","d","a","t","i","o","n">>,
    <<"a","s","s","o","c","i","a","t","i","o","n">> }

PHARMA_BIOTECH_KEYWORDS ==
  { <<"p","h","a","r","m","a">>,
    <<"p","h","a","r","m","a","c","e","u","t","i","c","a","l">>,
    <<"b","i","o","t","e","c","h">>,
    <<"b","i","o","s","c","i","e","n","c","e">>,
    <<"t","h","e","r","a","p","e","u","t","i","c","s">>,
    <<"b","i","o","l","o","g","i","c","s">>,
    <<"b","i","o","p","h","a","r","m","a","c","e","u","t","i","c","a","l">>,
    <<"l","a","b","o","r","a","t","o","r","i","e","s">>,
    <<"l","a","b","s">>,
    <<"i","n","c">>,
    <<"l","l","c">>,
    <<"l","t","d">>,
    <<"l","i","m","i","t","e","d">>,
    <<"c","o","r","p">>,
    <<"c","o","r","p","o","r","a","t","i","o","n">>,
    <<"c","o",".">>,
    <<"c","o","m","p","a","n","y">>,
    <<"g","m","b","h">>,
    <<"b","i","o","p","h","a","r","m","a">>,
    <<"g","e","n","o","m","i","c","s">>,
    <<"h","e","a","l","t","h">>,
    <<"t","e","c","h","n","o","l","o","g","i","e","s">>,
    <<"d","i","a","g","n","o","s","t","i","c","s">>,
    <<"g","e","n","e","n","t","e","c","h">>,
    <<"m","o","d","e","r","n","a">>,
    <<"p","f","i","z","e","r">>,
    <<"a","s","t","r","a","z","e","n","e","c","a">>,
    <<"n","o","v","a","r","t","i","s">> }

ACADEMIC_EMAIL_DOMAINS ==
  { <<"e","d","u">>,
    <<"a","c",".","u","k">>,
    <<"a","c",".","j","p">>,
    <<"e","d","u",".","a","u">>,
    <<"a","c",".","c","n">>,
    <<"a","c",".","i","n">>,
    <<"e","d","u",".","s","g">>,
    <<"u","n","i","-">>,
    <<".","u","n","i",".">>,
    <<"n","i","h",".","g","o","v">>,
    <<"g","o","v">>,
    <<"o","r","g">>,
    <<"n","e","t">> }

(***************************************************************************)
(* Regular-expression helpers: positions are 1-based, a match is described *)
(* by the index of its first and of its last character.                    *)
(***************************************************************************)
IsWordAt(s, k) == k >= 1 /\ k <= Len(s) /\ s[k] \in WordChars

\* \b between s[i-1] and s[i]
Boundary(s, i) == IsWordAt(s, i - 1) # IsWordAt(s, i)

\* the last index of the longest run of characters of class C that starts at i
\* (i - 1 when the run is empty): a greedy C*
RunEnd(s, i, C) ==
  CHOOSE j \in (i - 1)..Len(s) :
    /\ \A k \in i..j : s[k] \in C
    /\ j = Len(s) \/ s[j + 1] \notin C

InClass(s, k, C) == k >= 1 /\ k <= Len(s) /\ s[k] \in C

\* the least element of a non-empty set of positions: re.search returns the
\* leftmost match
Leftmost(P) == CHOOSE i \in P : \A k \in P : i <= k

\* Optional[str]
None == [isNone |-> TRUE, s |-> <<>>]
Some(str) == [isNone |-> FALSE, s |-> str]
\* the truth value Python gives an Optional[str]
Truthy(o) == ~o.isNone /\ o.s # <<>>

(***************************************************************************)
(* is_academic_affiliation                                                 *)
(***************************************************************************)
is_academic_affiliation_NoLower(affiliation) ==
  /\ affiliation # <<>>
  /\ \E keyword \in ACADEMIC_KEYWORDS : Contains(affiliation, keyword)

is_academic_affiliation(affiliation) ==
  /\ affiliation # <<>>
  /\ \E keyword \in ACADEMIC_KEYWORDS : Contains(Lower(affiliation), keyword)

(***************************************************************************)
(* is_company_affiliation                                                  *)
(***************************************************************************)
\* r'\b[A-Z][a-z]*[A-Z][a-z]*\b' matches somewhere in s
CamelCaseWord(s) ==
  \E i \in 1..Len(s) :
    /\ s[i] \in UpperChars
    /\ Boundary(s, i)
    /\ LET j == RunEnd(s, i + 1, LowerChars) + 1
       IN  /\ InClass(s, j, UpperChars)
           /\ Boundary(s, RunEnd(s, j + 1, LowerChars) + 1)

\* r'\b[A-Z][a-z]+<lit>\b' matches somewhere in s
CapitalizedThen(s, lit) ==
  \E i \in 1..Len(s) :
    /\ s[i] \in UpperChars
    /\ Boundary(s, i)
    /\ LET j == RunEnd(s, i + 1, LowerChars)
       IN  /\ j >= i + 1
           /\ MatchAt(s, j + 1, lit)
           /\ Boundary(s, j + 1 + Len(lit))

company_patterns(s) ==
  \/ CamelCaseWord(s)
  \/ CapitalizedThen(s, <<","," ","I","n","c">>)
  \/ CapitalizedThen(s, <<" ","P","h","a","r","m","a","c","e","u","t","i","c","a","l","s">>)
  \/ CapitalizedThen(s, <<" ","B","i","o","t","e","c","h">>)
  \/ CapitalizedThen(s, <<" ","T","h","e","r","a","p","e","u","t","i","c","s">>)

is_company_affiliation(affiliation) ==
  /\ affiliation # <<>>
  /\ \/ \E keyword \in PHARMA_BIOTECH_KEYWORDS : Contains(Lower(affiliation), keyword)
     \/ company_patterns(affiliation)

(***************************************************************************)
(* is_academic_email                                                       *)
(***************************************************************************)
is_academic_email(email) ==
  /\ email # <<>>
  /\ LET parts == SplitOn(Lower(email), {"@"})
     IN  /\ Len(parts) >= 2
         /\ \E academic_domain \in ACADEMIC_EMAIL_DOMAINS :
              Contains(parts[2], academic_domain)

(***************************************************************************)
(* extract_company_name                                                    *)
(***************************************************************************)
\* (?:Pharmaceuticals|Pharma|Biotech|Therapeutics|Inc\.|LLC|Ltd\.|GmbH)
CorporateSuffixes ==
  << <<"P","h","a","r","m","a","c","e","u","t","i","c","a","l","s">>,
     <<"P","h","a","r","m","a">>,
     <<"B","i","o","t","e","c","h">>,
     <<"T","h","e","r","a","p","e","u","t","i","c","s">>,
     <<"I","n","c",".">>, <<"L","L","C">>, <<"L","t","d",".">>, <<"G","m","b","H">> >>

\* the last index of a match of ' (?:suffix)' at position p, 0 when none;
\* the alternatives are tried in order
SuffixEnd(s, p) ==
  IF ~InClass(s, p, {" "}) THEN 0
  ELSE LET hits == { n \in 1..Len(CorporateSuffixes) :
                       MatchAt(s, p + 1, CorporateSuffixes[n]) }
       IN  IF hits = {} THEN 0
           ELSE p + Len(CorporateSuffixes[Leftmost(hits)])

\* greedy (?:\s[A-Z][a-z]+)* after a match that ends at e
RECURSIVE MoreCapitalized(_, _)
MoreCapitalized(s, e) ==
  IF /\ InClass(s, e + 1, SpaceChars)
     /\ InClass(s, e + 2, UpperChars)
     /\ InClass(s, e + 3, LowerChars)
  THEN MoreCapitalized(s, RunEnd(s, e + 3, LowerChars))
  ELSE e

\* r'([A-Z][a-z]*[A-Z][a-z]*(?:\s[A-Z][a-z]+)*)': last index of the match
\* that starts at i, 0 when none
CamelNameEnd(s, i) ==
  IF ~InClass(s, i, UpperChars) THEN 0
  ELSE LET j == RunEnd(s, i + 1, LowerChars) + 1
       IN  IF ~InClass(s, j, UpperChars) THEN 0
           ELSE MoreCapitalized(s, RunEnd(s, j + 1, LowerChars))

\* r'([A-Z][a-z]+ (?:suffix))'
OneWordNameEnd(s, i) ==
  IF ~InClass(s, i, UpperChars) THEN 0
  ELSE LET j == RunEnd(s, i + 1, LowerChars)
       IN  IF j < i + 1 THEN 0 ELSE SuffixEnd(s, j + 1)

\* r'([A-Z][a-z]+ [A-Z][a-z]+ (?:suffix))'
TwoWordNameEnd(s, i) ==
  IF ~InClass(s, i, UpperChars) THEN 0
  ELSE LET j == RunEnd(s, i + 1, LowerChars)
       IN  IF j < i + 1 \/ ~InClass(s, j + 1, {" "}) \/ ~InClass(s, j + 2, UpperChars)
           THEN 0
           ELSE LET k == RunEnd(s, j + 3, LowerChars)
                IN  IF k < j + 3 THEN 0 ELSE SuffixEnd(s, k + 1)

\* re.search(pattern, s).group(1), given for every start i the last index
\* ends[i] of the pattern's match there (0 when it does not match at i)
SearchGroup(s, ends) ==
  LET starts == { i \in 1..Len(s) : ends[i] > 0 }
  IN  IF starts = {} THEN None
      ELSE Some(SubSeq(s, Leftmost(starts), ends[Leftmost(starts)]))

extract_company_name(affiliation) ==
  IF affiliation = <<>> THEN None
  ELSE LET a == SearchGroup(affiliation, [k \in 1..Len(affiliation) |-> CamelNameEnd(affiliation, k)])
           b == SearchGroup(affiliation, [k \in 1..Len(affiliation) |-> OneWordNameEnd(affiliation, k)])
           c == SearchGroup(affiliation, [k \in 1..Len(affiliation) |-> TwoWordNameEnd(affiliation, k)])
       IN  IF ~a.isNone THEN a
           ELSE IF ~b.isNone THEN b
           ELSE IF ~c.isNone THEN c
           ELSE Some(Strip(SplitOn(affiliation, {",", "."})[1]))

(***************************************************************************)
(* The e-mail pattern of analyze_author_affiliations:                      *)
(* r'([a-zA-Z0-9_.+-]+@[a-zA-Z0-9-]+\.[a-zA-Z0-9-.]+)'                     *)
(***************************************************************************)
EmailLocalChars == AlnumChars \cup {"_", ".", "+", "-"}
EmailHostChars == AlnumChars \cup {"-"}
EmailTailChars == AlnumChars \cup {"-", "."}

\* the last index of the match that starts at i, 0 when none
EmailEnd(s, i) ==
  LET at == RunEnd(s, i, EmailLocalChars) + 1
  IN  IF at = i \/ ~InClass(s, at, {"@"}) THEN 0
      ELSE LET h == RunEnd(s, at + 1, EmailHostChars)
           IN  IF h < at + 1 \/ ~InClass(s, h + 1, {"."}) \/ ~InClass(s, h + 2, EmailTailChars)
               THEN 0
               ELSE RunEnd(s, h + 2, EmailTailChars)

\* re.search(...) on the affiliation: None, or group(1) of the leftmost match
email_match(affiliation) ==
  SearchGroup(affiliation, [k \in 1..Len(affiliation) |-> EmailEnd(affiliation, k)])

(***************************************************************************)
(* Raw records.  A field of a record is absent, a string, or a list of     *)
(* strings.                                                                *)
(***************************************************************************)
Absent == [kind |-> "absent", s |-> <<>>, l |-> <<>>]
Str(chars) == [kind |-> "str", s |-> chars, l |-> <<>>]
List(items) == [kind |-> "list", s |-> <<>>, l |-> items]

Article(pmid, ti, au, ad, dp, dep, edat, mhda) ==
  [PMID |-> pmid, TI |-> ti, AU |-> au, AD |-> ad,
   DP |-> dp, DEP |-> dep, EDAT |-> edat, MHDA |-> mhda]

\* `field in article`
HasField(v) == v.kind # "absent"

\* the truth value of a field's value
Truth(v) == (v.kind = "str" /\ v.s # <<>>) \/ (v.kind = "list" /\ v.l # <<>>)

\* article.get(field, default)
Get(v, default) == IF HasField(v) THEN v ELSE default

\* what iteration and indexing see of a value: the elements of a list, the
\* one-character strings of a string
Items(v) == IF v.kind = "list" THEN v.l ELSE [k \in 1..Len(v.s) |-> <<v.s[k]>>]

(***************************************************************************)
(* datetime.strptime, strftime and fromisoformat                           *)
(***************************************************************************)
IsDigits(s) == \A k \in 1..Len(s) : s[k] \in DigitChars

DigitVal(c) == (CHOOSE k \in 1..10 : DigitSeq[k] = c) - 1

RECURSIVE ToInt(_)
ToInt(s) ==
  IF s = <<>> THEN 0
  ELSE 10 * ToInt(SubSeq(s, 1, Len(s) - 1)) + DigitVal(s[Len(s)])

RECURSIVE Decimal(_)
Decimal(n) ==
  IF n < 10 THEN <<DigitSeq[n + 1]>>
  ELSE Decimal(n \div 10) \o <<DigitSeq[(n % 10) + 1]>>

\* %m and %d of strftime
Pad2(n) == <<DigitSeq[(n \div 10) + 1], DigitSeq[(n % 10) + 1]>>

\* %b of strptime, matched ignoring case
MonthAbbrs ==
  << <<"j","a","n">>,
     <<"f","e","b">>,
     <<"m","a","r">>,
     <<"a","p","r">>,
     <<"m","a","y">>,
     <<"j","u","n">>,
     <<"j","u","l">>,
     <<"a","u","g">>,
     <<"s","e","p">>,
     <<"o","c","t">>,
     <<"n","o","v">>,
     <<"d","e","c">> >>

MonthOf(tok) ==
  IF \E m \in 1..12 : MonthAbbrs[m] = Lower(tok)
  THEN CHOOSE m \in 1..12 : MonthAbbrs[m] = Lower(tok)
  ELSE 0

IsLeap(y) == (y % 4 = 0 /\ y % 100 # 0) \/ y % 400 = 0

DaysIn(y, m) ==
  IF m = 2 THEN (IF IsLeap(y) THEN 29 ELSE 28)
  ELSE IF m \in {4, 6, 9, 11} THEN 30 ELSE 31

\* the date datetime accepts
ValidDate(y, m, d) == y >= 1 /\ y <= 9999 /\ m \in 1..12 /\ d >= 1 /\ d <= DaysIn(y, m)

NoDate == [ok |-> FALSE, y |-> 0, m |-> 0, d |-> 0]
Date(y, m, d) == [ok |-> TRUE, y |-> y, m |-> m, d |-> d]

\* datetime.strptime(date_str, fmt) for fmt = '%Y %b %d' (withDay) and
\* '%Y %b': the directives are separated by \s+, the whole string must be
\* consumed; ok = FALSE stands for the ValueError
strptime(date_str, withDay) ==
  LET tok == Split(date_str)
      n == IF withDay THEN 3 ELSE 2
  IN  IF \/ Len(tok) # n
         \/ date_str[1] \in SpaceChars
         \/ date_str[Len(date_str)] \in SpaceChars
         \/ Len(tok[1]) # 4 \/ ~IsDigits(tok[1])
         \/ MonthOf(tok[2]) = 0
      THEN NoDate
      ELSE LET y == ToInt(tok[1])
               m == MonthOf(tok[2])
               dayOk == /\ Len(tok[3]) \in {1, 2}
                        /\ IsDigits(tok[3])
                        /\ ToInt(tok[3]) \in 1..31
               d == IF withDay THEN ToInt(tok[3]) ELSE 1
           IN  IF withDay /\ ~dayOk THEN NoDate
               ELSE IF ~ValidDate(y, m, d) THEN NoDate
               ELSE Date(y, m, d)

\* strftime('%Y'): the C library prints the year without padding
FormatYear(y) == Decimal(y)

\* date_obj.strftime('%Y-%m-%d')
strftime_Ymd(date) == FormatYear(date.y) \o <<"-">> \o Pad2(date.m) \o <<"-">> \o Pad2(date.d)

\* date_obj.strftime('%Y-%m-01')
strftime_Ym01(date) == FormatYear(date.y) \o <<"-">> \o Pad2(date.m) \o <<"-", "0", "1">>

\* str.replace('Z', '+00:00')
RECURSIVE ReplaceZ(_)
ReplaceZ(s) ==
  IF s = <<>> THEN <<>>
  ELSE (IF s[1] = "Z" THEN <<"+","0","0",":","0","0">> ELSE <<s[1]>>) \o ReplaceZ(Tail(s))

\* hh, hh:mm or hh:mm:ss
IsoTime(t) ==
  /\ Len(t) \in {2, 5, 8}
  /\ \A k \in 1..Len(t) : IF k \in {3, 6} THEN t[k] = ":" ELSE t[k] \in DigitChars
  /\ ToInt(SubSeq(t, 1, 2)) < 24
  /\ Len(t) >= 5 => ToInt(SubSeq(t, 4, 5)) < 60
  /\ Len(t) = 8 => ToInt(SubSeq(t, 7, 8)) < 60

\* datetime.fromisoformat(s), for the extended calendar form
\* YYYY-MM-DD<sep>hh[:mm[:ss]][<one character>](+|-)hh:mm; one character
\* between the time and the sign of the offset is skipped by the parser
fromisoformat(s) ==
  IF \/ Len(s) < 10
     \/ ~IsDigits(SubSeq(s, 1, 4)) \/ s[5] # "-"
     \/ ~IsDigits(SubSeq(s, 6, 7)) \/ s[8] # "-"
     \/ ~IsDigits(SubSeq(s, 9, 10))
  THEN NoDate
  ELSE LET y == ToInt(SubSeq(s, 1, 4))
           m == ToInt(SubSeq(s, 6, 7))
           d == ToInt(SubSeq(s, 9, 10))
           rest == Slice(s, 12, Len(s))
           signs == { p \in 1..Len(rest) : rest[p] \in {"+", "-"} }
           timeOk ==
             IF signs = {} THEN IsoTime(rest)
             ELSE LET p == Leftmost(signs)
                      t == Slice(rest, 1, p - 1)
                      tz == Slice(rest, p + 1, Len(rest))
                  IN  /\ IsoTime(t) \/ (Len(t) >= 3 /\ IsoTime(SubSeq(t, 1, Len(t) - 1)))
                      /\ Len(tz) = 5 /\ IsDigits(SubSeq(tz, 1, 2)) /\ tz[3] = ":"
                      /\ IsDigits(SubSeq(tz, 4, 5)) /\ ToInt(SubSeq(tz, 1, 2)) < 24
       IN  IF ~ValidDate(y, m, d) THEN NoDate
           ELSE IF Len(s) = 10 THEN Date(y, m, d)
           ELSE IF Len(s) < 13 \/ ~timeOk THEN NoDate
           ELSE Date(y, m, d)

(***************************************************************************)
(* parse_publication_date                                                  *)
(***************************************************************************)
\* what the body of the loop does with one field: return a string, go on to
\* the next field, or raise
Return(str) == [out |-> "return", value |-> str, exc |-> "none"]
Continue == [out |-> "continue", value |-> <<>>, exc |-> "none"]
Raise(exc) == [out |-> "raise", value |-> <<>>, exc |-> exc]

\* the handler of the ValueError: the alternative formats
alternative_formats(date_str) ==
  IF Contains(date_str, <<"T">>)
  THEN LET date_obj == fromisoformat(ReplaceZ(date_str))
       IN  IF date_obj.ok THEN Return(strftime_Ymd(date_obj)) ELSE Continue
  ELSE IF Contains(date_str, <<"/">>)
  THEN LET date_parts == SplitOn(date_str, {"/"})
       IN  IF Len(date_parts) >= 3
           THEN Return(date_parts[1] \o <<"-">> \o date_parts[2] \o <<"-">> \o date_parts[3])
           ELSE Continue
  ELSE Continue

\* the one-token branch: f"{date_str.strip()}-01-01"
just_year_Fallback(date_str) ==
  IF alternative_formats(date_str).out = "return"
  THEN alternative_formats(date_str).value
  ELSE Strip(date_str) \o <<"-","0","1","-","0","1">>

just_year_Bare(date_str) == Strip(date_str)

just_year(date_str) == Strip(date_str) \o <<"-","0","1","-","0","1">>

\* a list has no split(): AttributeError, which `except ValueError` lets through
try_field(v) ==
  IF ~(HasField(v) /\ Truth(v)) THEN Continue
  ELSE IF v.kind # "str" THEN Raise("AttributeError")
  ELSE LET date_str == v.s
           n == Len(Split(date_str))
       IN  IF n >= 3
           THEN LET date_obj == strptime(date_str, TRUE)
                IN  IF date_obj.ok THEN Return(strftime_Ymd(date_obj))
                    ELSE alternative_formats(date_str)
           ELSE IF n = 2
           THEN LET date_obj == strptime(date_str, FALSE)
                IN  IF date_obj.ok THEN Return(strftime_Ym01(date_obj))
                    ELSE alternative_formats(date_str)
           ELSE Return(just_year(date_str))

date_fields_Reversed(article) == <<article.MHDA, article.EDAT, article.DEP, article.DP>>

date_fields(article) == <<article.DP, article.DEP, article.EDAT, article.MHDA>>

RECURSIVE parse_from(_, _)
parse_from(fields, k) ==
  IF k > Len(fields) THEN Return(<<>>)
  ELSE LET r == try_field(fields[k])
       IN  IF r.out = "continue" THEN parse_from(fields, k + 1) ELSE r

\* the result is a Return or a Raise
parse_publication_date(article) == parse_from(date_fields(article), 1)

(***************************************************************************)
(* The raw records the model runs on.                                      *)
(***************************************************************************)
SmithJ == <<"S","m","i","t","h"," ","J">>
DoeA == <<"D","o","e"," ","A">>
LeeK == <<"L","e","e"," ","K">>

YaleUniversity == <<"Y","a","l","e"," ","U","n","i","v","e","r","s","i","t","y">>
ModernaInstitute == <<"M","o","d","e","r","n","a"," ","I","n","s","t","i","t","u","t","e">>
SchoolMail == <<"S","c","h","o","o","l"," ","u","@","y","a","l","e",".","e","d","u">>
CollegeMail == <<"C","o","l","l","e","g","e"," ","v","@","x",".","o","r","g">>
PfizerInc == <<"P","f","i","z","e","r"," ","I","n","c">>
PfizerIncMail == <<"P","f","i","z","e","r"," ","I","n","c",","," ","j","@","p","f",".","c","o","m">>
PfizerMail == <<"P","f","i","z","e","r"," ","x","@","p","f",".","c","o","m">>
ModernaMail == <<"M","o","d","e","r","n","a"," ","y","@","m","o",".","i","o">>
AbbVie == <<"A","b","b","V","i","e">>
AbbVieMail == <<"A","b","b","V","i","e"," ","x","@","p","f",".","c","o","m">>
CommaInc == <<","," ","I","n","c">>
Home == <<"h","o","m","e">>

SampleRecords ==
  { \* an academic and a commercial author, a full date
    Article(Str(<<"1">>), Str(<<"T","1">>), List(<<SmithJ, DoeA>>),
            List(<<YaleUniversity, PfizerIncMail>>),
            Str(<<"2","0","2","3"," ","J","a","n"," ","1","5">>), Str(<<"2","0","2","2"," ","D","e","c"," ","3","0">>), Absent, Absent),
    \* every affiliation academic, one of them also commercial
    Article(Str(<<"2">>), Str(<<"T","2">>), List(<<SmithJ, DoeA>>),
            List(<<SchoolMail, ModernaInstitute>>),
            Str(<<"2","0","2","3"," ","J","a","n">>), Absent, Absent, Absent),
    \* one commercial author whose name is the empty string
    Article(Str(<<"3">>), Str(<<"T","3">>), List(<<<<>>>>),
            List(<<AbbVie>>),
            Str(<<"2","0","2","3">>), Absent, Absent, Absent),
    \* more authors than affiliations, two company e-mails, an empty date
    \* before an entry date
    Article(Str(<<"4">>), Str(<<"T","4">>), List(<<SmithJ, DoeA, LeeK>>),
            List(<<PfizerMail, ModernaMail>>),
            Str(<<>>), Absent, Str(<<"2","0","2","3","/","0","1","/","1","5"," ","0","6",":","0","0">>), Absent),
    \* more affiliations than authors, a date of whitespace
    Article(Str(<<"5">>), Str(<<"T","5">>), List(<<SmithJ>>),
            List(<<SchoolMail, PfizerMail, CollegeMail>>),
            Str(<<" "," ">>), Absent, Absent, Absent),
    \* a date field that is a list of strings
    Article(Str(<<"6">>), Str(<<"T","6">>), List(<<DoeA>>),
            List(<<PfizerInc>>),
            List(<<<<"2","0","2","3"," ","J","a","n">>>>), Absent, Absent, Absent),
    \* no author list, a date that is no number
    Article(Str(<<"7">>), Str(<<"T","7">>), Absent,
            List(<<PfizerInc>>),
            Str(<<"n",".","d",".">>), Absent, Absent, Absent),
    \* an academic e-mail, then a company e-mail, then an academic one
    Article(Str(<<"8">>), Str(<<"T","8">>), List(<<SmithJ, DoeA, LeeK>>),
            List(<<SchoolMail, AbbVieMail, CollegeMail>>),
            Str(<<"2","0","2","3"," ","F","o","o">>), Str(<<"2","0","2","4"," ","F","e","b"," ","2","9">>), Absent, Absent),
    \* two academic e-mails, a timestamp
    Article(Str(<<"9">>), Str(<<"T","9">>), List(<<SmithJ, DoeA, LeeK>>),
            List(<<SchoolMail, PfizerInc, CollegeMail>>),
            Str(<<"2","0","2","3","-","0","1","-","1","5","T","1","0",":","3","0"," ","Z">>), Absent, Absent, Absent),
    \* an empty affiliation, a company without a name, an unknown one; no date
    Article(Absent, Str(<<"T","1","0">>), List(<<SmithJ, DoeA, LeeK>>),
            List(<<<<>>, CommaInc, Home>>),
            Absent, Absent, Absent, Absent),
    \* one author on three company lines, two of them of one company; a date
    \* that fails every format
    Article(Str(<<"1","1">>), Absent, List(<<DoeA, DoeA, DoeA>>),
            List(<<PfizerInc, AbbVie, PfizerInc>>),
            Str(<<"T","u","e"," ","2","0","2","3">>), Absent, Absent, Str(<<"2","0","0","1"," ","M","a","r"," ","3">>)),
    \* no identifier, a list after a date that fails
    Article(Absent, Str(<<"T","1","2">>), List(<<LeeK>>),
            List(<<ModernaMail>>),
            Str(<<"2","0","2","3"," ","F","e","b"," ","3","0">>), List(<<<<"2","0","2","3">>>>), Absent, Absent) }

\* the longest input list
MaxArticles == 2

RECURSIVE ListsUpTo(_, _)
ListsUpTo(S, n) ==
  IF n = 0 THEN {<<>>}
  ELSE LET shorter == ListsUpTo(S, n - 1)
       IN  shorter \cup { Append(l, x) : l \in shorter, x \in S }

(***************************************************************************)
(* filter_papers as a state machine: one step per record extracted, per    *)
(* affiliation entry analysed, per exception handled.                      *)
(***************************************************************************)
\* the hash seeds a process can run under (string hashes are randomised
\* per process)
HashSeeds == {"seed_a", "seed_b"}

VARIABLES
  articles,               \* the argument of filter_papers
  debug,                  \* its debug flag
  hashseed,               \* the hash seed of the interpreter process
  pc,                     \* "start", "loop", "analyze", "except", "done", "raised"
  idx,                    \* the position of the for loop over articles
  results,                \* the list filter_papers builds
  log,                    \* what the logger has emitted
  outcomes,               \* history: per record extracted, what became of it
  publication_date,       \* the outcome of parse_publication_date for articles[idx]
  i,                      \* the position of the for loop over affiliations
  non_academic_authors,   \* the locals of analyze_author_affiliations
  company_affiliations,
  corresponding_email,
  exc                     \* the exception being handled

\* the state of one run of main (cli/main.py)
VARIABLES
  argv,                   \* the parsed command line: file, debug, and whether it parses
  main_pc,                \* where main stands
  calls,                  \* history: the stages main has called, in order
  main_exc,               \* the exception main's try block has raised
  exit_code,              \* what main returned: no value yet, or one
  main_log                \* what main's logger has emitted

main_vars == <<argv, main_pc, calls, main_exc, exit_code, main_log>>

\* the state of one call of fetch_article_details (backend_takehome/fetch.py)
VARIABLES
  pmids,                  \* its argument
  fetch_debug,            \* its debug flag
  fetch_pc,               \* where the call stands
  batch_start,            \* i of `for i in range(0, len(pmids), batch_size)`
  all_records,            \* the list it builds
  requests,               \* history: the id argument of each Entrez.efetch call
  parsed,                 \* history: per request, the records Medline.parse yielded
  fetch_result,           \* what it returned: no value yet, or one list
  fetch_log               \* what its logger has emitted

fetch_vars == <<pmids, fetch_debug, fetch_pc, batch_start, all_records, requests, parsed,
                fetch_result, fetch_log>>

\* one call of a function of filter.py on its own
VARIABLES
  call_arg,               \* the argument of the call
  call_ret                \* what the call returned: no value yet, or one

call_vars == <<call_arg, call_ret>>

filter_vars == <<articles, debug, hashseed, pc, idx, results, log, outcomes, publication_date, i,
                 non_academic_authors, company_affiliations, corresponding_email, exc>>

vars == <<filter_vars, main_vars, fetch_vars, call_vars>>

analysis == <<i, non_academic_authors, company_affiliations, corresponding_email>>

article == articles[idx]
authors == Items(Get(article.AU, List(<<>>)))
affiliations == Items(Get(article.AD, List(<<>>)))

LogEntry(level, event, arg) == [level |-> level, event |-> event, arg |-> arg]

\* main is not running
MainIdle ==
  /\ argv = [file |-> None, debug |-> FALSE, parses |-> TRUE]
  /\ main_pc = "idle"
  /\ calls = <<>>
  /\ main_exc = "none"
  /\ exit_code = {}
  /\ main_log = <<>>

\* fetch_article_details is not running
FetchIdle ==
  /\ pmids = <<>>
  /\ fetch_debug = FALSE
  /\ fetch_pc = "idle"
  /\ batch_start = 0
  /\ all_records = <<>>
  /\ requests = <<>>
  /\ parsed = <<>>
  /\ fetch_result = {}
  /\ fetch_log = <<>>

\* no function is called on its own
CallIdle ==
  /\ call_arg = <<>>
  /\ call_ret = {}

Init ==
  /\ MainIdle
  /\ FetchIdle
  /\ CallIdle
  /\ articles \in ListsUpTo(SampleRecords, MaxArticles)
  /\ debug \in BOOLEAN
  /\ hashseed \in HashSeeds
  /\ pc = "start"
  /\ idx = 1
  /\ results = <<>>
  /\ log = <<>>
  /\ outcomes = <<>>
  /\ publication_date = Continue
  /\ i = 1
  /\ non_academic_authors = <<>>
  /\ company_affiliations = {}
  /\ corresponding_email = None
  /\ exc = "none"

\* lines 289-293
Start ==
  /\ pc = "start"
  /\ pc' = "loop"
  /\ log' = IF debug THEN Append(log, LogEntry("DEBUG", "filtering", Absent)) ELSE log
  /\ UNCHANGED <<main_vars, fetch_vars, call_vars>>
  /\ UNCHANGED <<articles, debug, hashseed, idx, results, outcomes, publication_date, analysis, exc>>

\* `except Exception` catches every exception the extraction can raise
Catches_ValueErrorOnly(e) == e = "ValueError"

Catches(e) == e \in {"ValueError", "AttributeError", "IndexError", "TypeError", "KeyError"}

\* an exception raised inside the try block of filter_papers
RaiseInTry(e) ==
  /\ exc' = e
  /\ pc' = IF Catches(e) THEN "except" ELSE "raised"

\* extract_paper_details up to the loop of analyze_author_affiliations
ExtractBegin ==
  /\ pc = "loop"
  /\ idx <= Len(articles)
  /\ publication_date' = parse_publication_date(article)
  /\ IF publication_date'.out = "raise"
     THEN /\ RaiseInTry(publication_date'.exc)
          /\ UNCHANGED analysis
     ELSE /\ pc' = "analyze"
          /\ i' = 1
          /\ non_academic_authors' = <<>>
          /\ company_affiliations' = {}
          /\ corresponding_email' = None
          /\ exc' = "none"
  /\ UNCHANGED <<main_vars, fetch_vars, call_vars>>
  /\ UNCHANGED <<articles, debug, hashseed, idx, results, log, outcomes>>

\* `if 'AU' not in article or 'AD' not in article: return [], [], None`
MissingLists == ~HasField(article.AU) \/ ~HasField(article.AD)

\* the for loop over the affiliations has ended, or was never entered
LoopDone == MissingLists \/ i > Len(affiliations)

\* `if i < len(authors) and affiliation`
paired_NoBound(k, affiliation) == affiliation # <<>>

paired(k, affiliation) == k <= Len(authors) /\ affiliation # <<>>

\* `if not is_academic_affiliation(...) and is_company_affiliation(...)`
commercial_CompanyOnly(affiliation) == is_company_affiliation(affiliation)

commercial(affiliation) ==
  ~is_academic_affiliation(affiliation) /\ is_company_affiliation(affiliation)

\* `if not corresponding_email or not is_academic_email(email)`
takes_email_FirstOnly(current, email) == ~Truthy(current)

takes_email_Always(current, email) == TRUE

takes_email_Inverted(current, email) == ~Truthy(current) \/ is_academic_email(email)

takes_email(current, email) == ~Truthy(current) \/ ~is_academic_email(email)

\* one iteration of the loop of analyze_author_affiliations
AnalyzeStep ==
  /\ pc = "analyze"
  /\ ~LoopDone
  /\ LET affiliation == affiliations[i]
         company == extract_company_name(affiliation)
         email_m == email_match(affiliation)
     IN  IF ~paired(i, affiliation)
         THEN /\ UNCHANGED <<non_academic_authors, company_affiliations,
                             corresponding_email, pc, exc>>
              /\ i' = i + 1
         ELSE IF i > Len(authors)
         THEN \* authors[i]: list index out of range
              /\ RaiseInTry("IndexError")
              /\ UNCHANGED analysis
         ELSE /\ non_academic_authors' =
                   IF commercial(affiliation)
                   THEN Append(non_academic_authors, authors[i])
                   ELSE non_academic_authors
              /\ company_affiliations' =
                   IF commercial(affiliation) /\ Truthy(company)
                   THEN company_affiliations \cup {company.s}
                   ELSE company_affiliations
              /\ corresponding_email' =
                   IF ~email_m.isNone /\ takes_email(corresponding_email, email_m.s)
                   THEN email_m
                   ELSE corresponding_email
              /\ i' = i + 1
              /\ UNCHANGED <<pc, exc>>
  /\ UNCHANGED <<main_vars, fetch_vars, call_vars>>
  /\ UNCHANGED <<articles, debug, hashseed, idx, results, log, outcomes, publication_date>>

\* the lists that hold each element of the set once
Orderings(S) ==
  { f \in [1..Cardinality(S) -> S] : \A a, b \in 1..Cardinality(S) : f[a] = f[b] => a = b }

Reverse(s) == [k \in 1..Len(s) |-> s[Len(s) + 1 - k]]

\* list(company_affiliations): the iteration order of a set of strings is
\* fixed by the hashes of its elements, and the hashes by the seed of the
\* process; the two seeds list a set of two strings in opposite orders
list_of_set(S, seed) ==
  LET l == CHOOSE f \in Orderings(S) : TRUE
  IN  IF seed = "seed_a" THEN l ELSE Reverse(l)

Semicolon == <<";", " ">>

\* the result dictionary of extract_paper_details
paper_details_of(art, date, names, companies, email) ==
  [PubmedID |-> Get(art.PMID, Str(<<>>)),
   Title |-> Get(art.TI, Str(<<>>)),
   PublicationDate |-> date,
   NonAcademicAuthors |-> Join(Semicolon, names),
   CompanyAffiliations |-> Join(Semicolon, companies),
   CorrespondingAuthorEmail |-> IF Truthy(email) THEN email.s ELSE <<>>]

\* `if paper_details['Non-academicAuthor(s)']`
keeps_Always(paper_details) == TRUE

keeps(paper_details) == paper_details.NonAcademicAuthors # <<>>

\* `filtered_results.append(paper_details)`
filtered_results_append_Front(list, paper_details) == <<paper_details>> \o list

filtered_results_append(list, paper_details) == Append(list, paper_details)

\* what the history records of one record
Outcome(raised, names, details, kept) ==
  [raised |-> raised, authors |-> names, details |-> details, kept |-> kept]

NoDetails == paper_details_of(Article(Absent, Absent, Absent, Absent, Absent, Absent, Absent, Absent),
                              <<>>, <<>>, <<>>, None)

\* analyze_author_affiliations returns, extract_paper_details builds its
\* result, filter_papers keeps it or not
ExtractFinish ==
  /\ pc = "analyze"
  /\ LoopDone
  /\ LET companies == list_of_set(company_affiliations, hashseed)
         names == IF MissingLists THEN <<>> ELSE non_academic_authors
         paper_details ==
           paper_details_of(article, publication_date.value, names,
                            IF MissingLists THEN <<>> ELSE companies,
                            IF MissingLists THEN None ELSE corresponding_email)
     IN  /\ results' = IF keeps(paper_details)
                       THEN filtered_results_append(results, paper_details)
                       ELSE results
         /\ log' = IF keeps(paper_details) /\ debug
                   THEN Append(log, LogEntry("DEBUG", "found", paper_details.Title))
                   ELSE log
         /\ outcomes' = Append(outcomes,
                               Outcome(FALSE, names, paper_details, keeps(paper_details)))
  /\ idx' = idx + 1
  /\ pc' = "loop"
  /\ UNCHANGED <<main_vars, fetch_vars, call_vars>>
  /\ UNCHANGED <<articles, debug, hashseed, publication_date, analysis, exc>>

\* the except clause of filter_papers
HandleException ==
  /\ pc = "except"
  /\ log' = IF debug
            THEN Append(log, LogEntry("ERROR", "error", Get(article.PMID, Str(<<"u","n","k","n","o","w","n">>))))
            ELSE log
  /\ outcomes' = Append(outcomes, Outcome(TRUE, <<>>, NoDetails, FALSE))
  /\ idx' = idx + 1
  /\ pc' = "loop"
  /\ UNCHANGED <<main_vars, fetch_vars, call_vars>>
  /\ UNCHANGED <<articles, debug, hashseed, results, publication_date, analysis, exc>>

\* lines 309-312
FilterReturn ==
  /\ pc = "loop"
  /\ idx > Len(articles)
  /\ pc' = "done"
  /\ log' = IF debug THEN Append(log, LogEntry("DEBUG", "total", Absent)) ELSE log
  /\ UNCHANGED <<main_vars, fetch_vars, call_vars>>
  /\ UNCHANGED <<articles, debug, hashseed, idx, results, outcomes, publication_date, analysis, exc>>

Next ==
  \/ Start
  \/ ExtractBegin
  \/ AnalyzeStep
  \/ ExtractFinish
  \/ HandleException
  \/ FilterReturn

Spec == Init /\ [][Next]_vars

(***************************************************************************)
(* The same raw record extracted twice, the second time possibly by        *)
(* another process: string hashes, and with them the iteration order of    *)
(* the set of companies, change from one process to the next.              *)
(***************************************************************************)
InitTwice ==
  /\ Init
  /\ Len(articles) = 2
  /\ articles[1] = articles[2]

\* the second extraction runs in a process with another hash seed
NewProcess ==
  /\ pc = "loop"
  /\ idx = 2
  /\ hashseed' \in HashSeeds \ {hashseed}
  /\ UNCHANGED <<main_vars, fetch_vars, call_vars>>
  /\ UNCHANGED <<articles, debug, pc, idx, results, log, outcomes, publication_date,
                 analysis, exc>>

NextTwice ==
  \/ Start
  \/ ExtractBegin
  \/ AnalyzeStep
  \/ ExtractFinish
  \/ HandleException
  \/ FilterReturn
  \/ NewProcess

SpecTwice == InitTwice /\ [][NextTwice]_vars

(***************************************************************************)
(* main of cli/main.py: the stages it calls and the code it returns.  The  *)
(* stages are taken as the tests take them, as calls that return or raise. *)
(***************************************************************************)
\* filter_papers is not running
FilterIdle ==
  /\ articles = <<>>
  /\ debug = FALSE
  /\ hashseed = "seed_a"
  /\ pc = "start"
  /\ idx = 1
  /\ results = <<>>
  /\ log = <<>>
  /\ outcomes = <<>>
  /\ publication_date = Continue
  /\ i = 1
  /\ non_academic_authors = <<>>
  /\ company_affiliations = {}
  /\ corresponding_email = None
  /\ exc = "none"

\* the values of -f/--file: not given, given empty, a bare name, a path
Files == {None, Some(<<>>), Some(<<"o",".","c","s","v">>), Some(<<"d","/","o",".","c","s","v">>)}

\* a command line that does not parse (no -e, or -v) ends parse_args with
\* SystemExit
InitMain ==
  /\ FilterIdle
  /\ FetchIdle
  /\ CallIdle
  /\ argv \in [file : Files, debug : BOOLEAN, parses : BOOLEAN]
  /\ main_pc = "parse"
  /\ calls = <<>>
  /\ main_exc = "none"
  /\ exit_code = {}
  /\ main_log = <<>>

\* os.path.dirname
RECURSIVE rstrip_slashes(_)
rstrip_slashes(p) ==
  IF p # <<>> /\ p[Len(p)] = "/" THEN rstrip_slashes(SubSeq(p, 1, Len(p) - 1)) ELSE p

dirname(p) ==
  LET slashes == {k \in 1..Len(p) : p[k] = "/"}
      head == IF slashes = {} THEN <<>>
              ELSE SubSeq(p, 1, CHOOSE k \in slashes : \A j \in slashes : j <= k)
  IN  IF head # <<>> /\ \E k \in 1..Len(head) : head[k] # "/"
      THEN rstrip_slashes(head)
      ELSE head

\* `if not os.path.dirname(filename): filename = os.path.join("data", filename)`
filename_of(file) ==
  IF dirname(file) = <<>> THEN <<"d","a","t","a","/">> \o file ELSE file

\* `if parsed_args.file:`
uses_file_Never(file) == FALSE

uses_file(file) == Truthy(file)

\* what a call of a stage can do
StageOutcomes == {"return", "Exception", "KeyboardInterrupt"}

Call(fn, arg, outcome) == [fn |-> fn, arg |-> arg, outcome |-> outcome]

\* a statement of the try block that calls fn: it returns and main goes on
\* at next_pc, or it raises and main goes to its except clauses
CallStage(fn, arg, next_pc) ==
  \E outcome \in StageOutcomes :
    /\ calls' = Append(calls, Call(fn, arg, outcome))
    /\ IF outcome = "return"
       THEN main_pc' = next_pc /\ UNCHANGED main_exc
       ELSE main_pc' = "except" /\ main_exc' = outcome

\* lines 94-99
ParseArgs ==
  /\ main_pc = "parse"
  /\ IF argv.parses
     THEN /\ main_pc' = "fetch"
          /\ main_log' = IF argv.debug
                         THEN main_log \o <<LogEntry("DEBUG", "debug mode", Absent),
                                            LogEntry("DEBUG", "arguments", Absent)>>
                         ELSE main_log
          /\ UNCHANGED main_exc
     ELSE /\ main_pc' = "propagated"
          /\ main_exc' = "SystemExit"
          /\ UNCHANGED main_log
  /\ UNCHANGED <<argv, calls, exit_code>>
  /\ UNCHANGED <<filter_vars, fetch_vars, call_vars>>

\* lines 104-112
CallFetchPapers ==
  /\ main_pc = "fetch"
  /\ main_log' = Append(main_log, LogEntry("INFO", "fetching", Absent))
  /\ CallStage("fetch_papers", None, "filter")
  /\ UNCHANGED <<argv, exit_code>>
  /\ UNCHANGED <<filter_vars, fetch_vars, call_vars>>

\* lines 114-116
CallFilterPapers ==
  /\ main_pc = "filter"
  /\ main_log' = Append(main_log, LogEntry("INFO", "filtering", Absent))
  /\ CallStage("filter_papers", None, "output")
  /\ UNCHANGED <<argv, exit_code>>
  /\ UNCHANGED <<filter_vars, fetch_vars, call_vars>>

\* lines 119-128 and 130: the branch on the file, and os.makedirs, which
\* returns or raises OSError
OutputBranch ==
  /\ main_pc = "output"
  /\ IF uses_file(argv.file)
     THEN \E made \in BOOLEAN :
            IF made THEN main_pc' = "export" /\ UNCHANGED main_exc
            ELSE main_pc' = "except" /\ main_exc' = "Exception"
     ELSE main_pc' = "print" /\ UNCHANGED main_exc
  /\ UNCHANGED <<argv, calls, exit_code, main_log>>
  /\ UNCHANGED <<filter_vars, fetch_vars, call_vars>>

\* line 130
CallExportToCsv ==
  /\ main_pc = "export"
  /\ CallStage("export_to_csv", Some(filename_of(argv.file.s)), "finish")
  /\ UNCHANGED <<argv, exit_code, main_log>>
  /\ UNCHANGED <<filter_vars, fetch_vars, call_vars>>

\* line 132
CallPrintCsv ==
  /\ main_pc = "print"
  /\ CallStage("print_csv", None, "finish")
  /\ UNCHANGED <<argv, exit_code, main_log>>
  /\ UNCHANGED <<filter_vars, fetch_vars, call_vars>>

\* lines 134-135
Return0 ==
  /\ main_pc = "finish"
  /\ main_log' = Append(main_log, LogEntry("INFO", "found", Absent))
  /\ exit_code' = {0}
  /\ main_pc' = "returned"
  /\ UNCHANGED <<argv, calls, main_exc>>
  /\ UNCHANGED <<filter_vars, fetch_vars, call_vars>>

\* lines 137-139
ExceptKeyboardInterrupt ==
  /\ main_pc = "except"
  /\ main_exc = "KeyboardInterrupt"
  /\ main_log' = Append(main_log, LogEntry("INFO", "cancelled", Absent))
  /\ exit_code' = {130}
  /\ main_pc' = "returned"
  /\ UNCHANGED <<argv, calls, main_exc>>
  /\ UNCHANGED <<filter_vars, fetch_vars, call_vars>>

\* lines 141-145
ExceptException ==
  /\ main_pc = "except"
  /\ main_exc = "Exception"
  /\ main_log' = IF argv.debug
                 THEN main_log \o <<LogEntry("ERROR", "error", Absent),
                                    LogEntry("ERROR", "detailed", Absent)>>
                 ELSE Append(main_log, LogEntry("ERROR", "error", Absent))
  /\ exit_code' = {1}
  /\ main_pc' = "returned"
  /\ UNCHANGED <<argv, calls, main_exc>>
  /\ UNCHANGED <<filter_vars, fetch_vars, call_vars>>

NextMain ==
  \/ ParseArgs
  \/ CallFetchPapers
  \/ CallFilterPapers
  \/ OutputBranch
  \/ CallExportToCsv
  \/ CallPrintCsv
  \/ Return0
  \/ ExceptKeyboardInterrupt
  \/ ExceptException

SpecMain == InitMain /\ [][NextMain]_vars

(***************************************************************************)
(* fetch_article_details of backend_takehome/fetch.py.  Entrez.efetch and  *)
(* Medline.parse are the server: a request returns the MEDLINE records of  *)
(* the ids asked for, or of those the server knows, or it fails.           *)
(***************************************************************************)
\* the longest list of ids
MaxPmids == 101

batch_size == 50

\* the ids "1", "2", ..., "n"
Pmids(n) == [k \in 1..n |-> Decimal(k)]

\* the MEDLINE record of an id, as Medline.parse yields it: a dictionary
\* with the keys PMID and TI
MedlineRecord(pmid) == [PMID |-> pmid, TI |-> <<"T">> \o pmid]

InitFetch ==
  /\ FilterIdle
  /\ MainIdle
  /\ CallIdle
  /\ \E n \in 0..MaxPmids : pmids = Pmids(n)
  /\ fetch_debug \in BOOLEAN
  /\ fetch_pc = "start"
  /\ batch_start = 0
  /\ all_records = <<>>
  /\ requests = <<>>
  /\ parsed = <<>>
  /\ fetch_result = {}
  /\ fetch_log = <<>>

\* lines 82-87
FetchStart ==
  /\ fetch_pc = "start"
  /\ IF pmids = <<>>
     THEN /\ fetch_log' = Append(fetch_log, LogEntry("WARNING", "no ids", Absent))
          /\ fetch_result' = {<<>>}
          /\ fetch_pc' = "returned"
     ELSE /\ fetch_log' = IF fetch_debug
                          THEN Append(fetch_log, LogEntry("DEBUG", "fetching", Absent))
                          ELSE fetch_log
          /\ fetch_pc' = "loop"
          /\ UNCHANGED fetch_result
  /\ UNCHANGED <<pmids, fetch_debug, batch_start, all_records, requests, parsed>>
  /\ UNCHANGED <<filter_vars, main_vars, call_vars>>

\* `batch = pmids[i:i+batch_size]`
batch_of_Rest(list, start) == SubSeq(list, start + 1, Len(list))

batch_of(list, start) ==
  SubSeq(list, start + 1,
         IF start + batch_size < Len(list) THEN start + batch_size ELSE Len(list))

\* what the server does with a request
ServerOutcomes == {"records", "unknown id", "raise"}

\* list(Medline.parse(handle)): a record per id of the batch, or per id but
\* the first when the server does not know that one
records_of(batch, outcome) ==
  LET known == IF outcome = "records" THEN batch ELSE Tail(batch)
  IN  [k \in 1..Len(known) |-> MedlineRecord(known[k])]

\* `all_records.extend(records)`
extend(list, records) == list \o records

\* lines 94-109: one iteration of the for loop
FetchBatch ==
  /\ fetch_pc = "loop"
  /\ batch_start < Len(pmids)
  /\ LET batch == batch_of(pmids, batch_start)
     IN  /\ requests' = Append(requests, Join(<<",">>, batch))
         /\ \E outcome \in ServerOutcomes :
              IF outcome = "raise"
              THEN /\ fetch_pc' = "except"
                   /\ UNCHANGED <<batch_start, all_records, parsed>>
              ELSE /\ parsed' = Append(parsed, records_of(batch, outcome))
                   /\ all_records' = extend(all_records, records_of(batch, outcome))
                   /\ batch_start' = batch_start + batch_size
                   /\ UNCHANGED fetch_pc
         /\ fetch_log' = IF fetch_debug
                         THEN Append(fetch_log, LogEntry("DEBUG", "batch", Absent))
                         ELSE fetch_log
  /\ UNCHANGED <<pmids, fetch_debug, fetch_result>>
  /\ UNCHANGED <<filter_vars, main_vars, call_vars>>

\* lines 111-114
FetchReturn ==
  /\ fetch_pc = "loop"
  /\ batch_start >= Len(pmids)
  /\ fetch_log' = IF fetch_debug
                  THEN Append(fetch_log, LogEntry("DEBUG", "fetched", Absent))
                  ELSE fetch_log
  /\ fetch_result' = {all_records}
  /\ fetch_pc' = "returned"
  /\ UNCHANGED <<pmids, fetch_debug, batch_start, all_records, requests, parsed>>
  /\ UNCHANGED <<filter_vars, main_vars, call_vars>>

\* lines 116-118: the error is logged and raised again
FetchExcept ==
  /\ fetch_pc = "except"
  /\ fetch_log' = Append(fetch_log, LogEntry("ERROR", "error", Absent))
  /\ fetch_pc' = "raised"
  /\ UNCHANGED <<pmids, fetch_debug, batch_start, all_records, requests, parsed,
                 fetch_result>>
  /\ UNCHANGED <<filter_vars, main_vars, call_vars>>

NextFetch ==
  \/ FetchStart
  \/ FetchBatch
  \/ FetchReturn
  \/ FetchExcept

SpecFetch == InitFetch /\ [][NextFetch]_vars

(***************************************************************************)
(* is_academic_email called on its own, on addresses with no, one or two   *)
(* "@".                                                                    *)
(***************************************************************************)
\* the pieces the addresses are made of
EmailPieces == {<<>>, <<"a">>, <<"y","a","l","e",".","e","d","u">>, <<"Y","A","L","E",".","E","D","U">>, <<"p","f",".","c","o","m">>}

\* the empty string and one to three pieces joined by "@"
Emails ==
  { Join(<<"@">>, l) : l \in ListsUpTo(EmailPieces, 3) \ {<<>>} } \cup {<<>>}

InitEmail ==
  /\ FilterIdle
  /\ MainIdle
  /\ FetchIdle
  /\ call_arg \in Emails
  /\ call_ret = {}

CallIsAcademicEmail ==
  /\ call_ret = {}
  /\ call_ret' = {is_academic_email(call_arg)}
  /\ UNCHANGED call_arg
  /\ UNCHANGED <<filter_vars, main_vars, fetch_vars>>

NextEmail ==
  \/ CallIsAcademicEmail

SpecEmail == InitEmail /\ [][NextEmail]_vars

(***************************************************************************)
(* parse_publication_date called on its own, on records with one date      *)
(* field of three, two or one tokens, or with none.                        *)
(***************************************************************************)
DateYears == { <<"0","9","9","9">>, <<"1","0","0","0">>, <<"2","0","2","3">>, <<"2","0","2","4">> }
DateMonths == { <<"J","a","n">>, <<"F","e","b">>, <<"D","e","c">> }
DateDays == { <<"1">>, <<"0","1">>, <<"2","9">>, <<"3","0">>, <<"3","1">> }

DateValues ==
  { Join(<<" ">>, <<y, m, d>>) : y \in DateYears, m \in DateMonths, d \in DateDays }
    \cup { Join(<<" ">>, <<y, m>>) : y \in DateYears, m \in DateMonths }
    \cup DateYears

\* values for the fallbacks: timestamps and slash-separated dates of one
\* and of two tokens, values of no or one token that are no year, values of
\* two and three tokens that are no date, and a date with a "T" in its month
FallbackValues ==
  { <<"2","0","2","3","-","0","1","-","1","5","T","1","0",":","3","0",":","0","0","Z">>, <<"2","0","2","3","-","0","1","-","1","5","T","1","0",":","3","0"," ","Z">>, <<"2","0","2","3","/","0","1","/","1","5">>, <<"2","0","2","3","/","0","1","/","1","5"," ","0","6",":","0","0">>,
    <<" "," ">>, <<"n",".","d",".">>, <<" ","2","0","2","3"," ">>, <<"2","0","2","3"," ","F","o","o">>, <<"T","u","e"," ","2","0","2","3">>, <<"2","0","2","3"," ","F","e","b"," ","3","0">>,
    <<"2","0","2","3"," ","O","C","T"," ","1","5">> }

\* a record with the value in its highest or in its lowest date field, a
\* record with a fallback value above a date, and the record with no date
\* field
DateArticles ==
  { Article(Absent, Absent, Absent, Absent, Str(v), Absent, Absent, Absent) :
      v \in FallbackValues }
    \cup { Article(Absent, Absent, Absent, Absent, Str(v), Absent, Absent,
                   Str(<<"2","0","0","1"," ","M","a","r"," ","3">>)) : v \in FallbackValues }
    \cup { Article(Absent, Absent, Absent, Absent, Str(v), Absent, Absent, Absent) :
             v \in DateValues }
    \cup { Article(Absent, Absent, Absent, Absent, Absent, Absent, Absent, Str(v)) :
             v \in DateValues }
    \cup { Article(Absent, Absent, Absent, Absent, Absent, Absent, Absent, Absent) }

InitDate ==
  /\ FilterIdle
  /\ MainIdle
  /\ FetchIdle
  /\ call_arg \in DateArticles
  /\ call_ret = {}

CallParsePublicationDate ==
  /\ call_ret = {}
  /\ call_ret' = {parse_publication_date(call_arg)}
  /\ UNCHANGED call_arg
  /\ UNCHANGED <<filter_vars, main_vars, fetch_vars>>

NextDate ==
  \/ CallParsePublicationDate

SpecDate == InitDate /\ [][NextDate]_vars

(***************************************************************************)
(* Properties.                                                             *)
(***************************************************************************)
\* the details of the records filter_papers kept, in order
KeptDetails ==
  LET kept == SelectSeq(outcomes, LAMBDA o : o.kept)
  IN  [k \in 1..Len(kept) |-> kept[k].details]

\* C1: every summary record in the output comes from a record whose
\* analysis returned a non-empty list of non-academic authors, and a record
\* whose list is empty is never emitted.
C1_FilterSoundness ==
  /\ \A k \in 1..Len(outcomes) : outcomes[k].kept => outcomes[k].authors # <<>>
  /\ results = KeptDetails

C1_Witness ==
  /\ pc = "done"
  /\ Len(outcomes) = 2
  /\ outcomes[1].kept
  /\ ~outcomes[2].kept /\ ~outcomes[2].raised /\ outcomes[2].authors = <<>>

\* C2: every record whose extraction does not raise and whose analysis
\* returned a non-empty list of non-academic authors, whatever the names
\* are, is in the output.
C2_FilterCompleteness ==
  \A k \in 1..Len(outcomes) :
    (~outcomes[k].raised /\ outcomes[k].authors # <<>>)
      => /\ outcomes[k].kept
         /\ \E r \in 1..Len(results) : results[r] = outcomes[k].details

\* s holds a term of the academic vocabulary, letter case ignored
HasAcademicTerm(s) ==
  \E keyword \in ACADEMIC_KEYWORDS :
    \E p \in 1..(Len(s) - Len(keyword) + 1) :
      \A k \in 1..Len(keyword) : LowerChar(s[p + k - 1]) = keyword[k]

\* every affiliation of the record holds an academic term
AllAcademic(art) ==
  /\ HasField(art.AU) /\ HasField(art.AD)
  /\ Items(art.AD) # <<>>
  /\ \A k \in 1..Len(Items(art.AD)) : HasAcademicTerm(Items(art.AD)[k])

\* C3: an affiliation that holds an academic term never adds its author to
\* the non-academic authors nor a company to the companies, whatever
\* commercial keywords or patterns it also matches; a record whose
\* affiliations are all academic ends with no non-academic author and is
\* dropped by filter_papers.
C3_AcademicPrecedence ==
  /\ [][(pc = "analyze" /\ ~LoopDone /\ HasAcademicTerm(affiliations[i]))
          => /\ non_academic_authors' = non_academic_authors
             /\ company_affiliations' = company_affiliations]_vars
  /\ [](\A k \in 1..Len(outcomes) :
          AllAcademic(articles[k])
            => /\ outcomes[k].authors = <<>>
               /\ ~outcomes[k].kept
               /\ outcomes[k].details.CompanyAffiliations = <<>>)

\* a record of academic affiliations, one of them matching the commercial
\* vocabulary too, has been analysed and dropped
C3_Witness ==
  \E k \in 1..Len(outcomes) :
    /\ AllAcademic(articles[k])
    /\ ~outcomes[k].raised
    /\ \E n \in 1..Len(Items(articles[k].AD)) :
         /\ n <= Len(Items(articles[k].AU))
         /\ is_company_affiliation(Items(articles[k].AD)[n])
    /\ ~outcomes[k].kept

\* C4: an extraction that raises does not make filter_papers raise; the
\* record is skipped, every later record is still processed, and the output
\* is what the records that did not fail contribute, in order.
C4_FailureIsolation ==
  /\ pc # "raised"
  /\ Len(outcomes) = idx - 1
  /\ pc = "done" => Len(outcomes) = Len(articles)
  /\ \A k \in 1..Len(outcomes) :
       IF outcomes[k].raised THEN ~outcomes[k].kept
       ELSE /\ outcomes[k].details.PubmedID = Get(articles[k].PMID, Str(<<>>))
            /\ outcomes[k].details.Title = Get(articles[k].TI, Str(<<>>))
            /\ outcomes[k].kept = (outcomes[k].details.NonAcademicAuthors # <<>>)
  /\ results = KeptDetails

\* with debug on, a record failed and the record after it was kept
C4_Witness ==
  /\ pc = "done"
  /\ debug
  /\ Len(outcomes) = 2
  /\ outcomes[1].raised
  /\ outcomes[2].kept
  /\ Len(results) = 1

\* the chosen e-mail is a non-academic address
NonAcademicChosen ==
  Truthy(corresponding_email) /\ ~is_academic_email(corresponding_email.s)

\* C5 as claimed: once the chosen e-mail is a non-academic address, no later
\* affiliation entry of the record changes it.
C5_NeverDisplaced ==
  [][(pc = "analyze" /\ NonAcademicChosen)
       => corresponding_email' = corresponding_email]_vars

\* C5 as amended: once the chosen e-mail is a non-academic address, a later
\* affiliation entry changes it only to the e-mail of that entry, and only
\* if that e-mail is non-academic too.
C5_DisplacedOnlyByNonAcademic ==
  [][(pc = "analyze" /\ corresponding_email' # corresponding_email /\ NonAcademicChosen)
       => /\ ~LoopDone
          /\ corresponding_email' = email_match(affiliations[i])
          /\ ~is_academic_email(corresponding_email'.s)]_vars

\* the e-mails of the entries the loop has scanned so far
RECURSIVE ScannedEmails(_, _, _)
ScannedEmails(au, ad, n) ==
  IF n = 0 THEN <<>>
  ELSE ScannedEmails(au, ad, n - 1)
         \o (IF n <= Len(au) /\ n <= Len(ad) /\ ~email_match(ad[n]).isNone
             THEN <<email_match(ad[n]).s>>
             ELSE <<>>)

\* a second non-academic e-mail has replaced the first
C5_Witness ==
  /\ pc = "analyze"
  /\ ~MissingLists
  /\ NonAcademicChosen
  /\ LET found == ScannedEmails(authors, affiliations, i - 1)
     IN  /\ Len(found) >= 2
         /\ ~is_academic_email(found[1])
         /\ found[1] # corresponding_email.s

\* C6: in the loop of the analyzer, a non-academic chosen e-mail stays
\* non-academic after every later entry, and an academic e-mail becomes the
\* chosen one only when none was chosen before.
C6_AcademicNeverOverwrites ==
  [][(pc = "analyze" /\ corresponding_email' # corresponding_email)
       => /\ NonAcademicChosen => NonAcademicChosen'
          /\ is_academic_email(corresponding_email'.s) => ~Truthy(corresponding_email)]_vars

\* an academic e-mail was scanned after a non-academic one was chosen
C6_Witness ==
  /\ pc = "analyze"
  /\ ~MissingLists
  /\ NonAcademicChosen
  /\ LET found == ScannedEmails(authors, affiliations, i - 1)
     IN  /\ Len(found) >= 2
         /\ is_academic_email(found[Len(found)])

\* the e-mails analyze_author_affiliations finds in a record, in order
FoundEmails(art) ==
  IF ~HasField(art.AU) \/ ~HasField(art.AD) THEN <<>>
  ELSE ScannedEmails(Items(art.AU), Items(art.AD), Len(Items(art.AD)))

NonAcademicEmails(found) == SelectSeq(found, LAMBDA e : ~is_academic_email(e))

\* the final e-mail as C7 claims it: the first one found when all are of one
\* class, the last non-academic one when the classes differ, none otherwise
ClaimedEmail(found) ==
  IF found = <<>> THEN <<>>
  ELSE IF \A a, b \in 1..Len(found) : is_academic_email(found[a]) = is_academic_email(found[b])
  THEN found[1]
  ELSE NonAcademicEmails(found)[Len(NonAcademicEmails(found))]

\* the final e-mail as the code chooses it: the last non-academic one found
\* if there is one, else the first one found, else none
ChosenEmail(found) ==
  IF found = <<>> THEN <<>>
  ELSE IF NonAcademicEmails(found) # <<>>
  THEN NonAcademicEmails(found)[Len(NonAcademicEmails(found))]
  ELSE found[1]

\* C7 as claimed: the e-mail of the summary record is the first e-mail found
\* when all e-mails found are of the same class, the last non-academic one
\* when they differ, and the empty string when none is found.
C7_FirstWhenSameClass ==
  \A k \in 1..Len(outcomes) :
    ~outcomes[k].raised
      => outcomes[k].details.CorrespondingAuthorEmail = ClaimedEmail(FoundEmails(articles[k]))

\* C7 as amended: the e-mail of the summary record is the last non-academic
\* e-mail found if any e-mail found is non-academic, the first e-mail found
\* if all are academic, and the empty string when none is found.
C7_LastNonAcademicElseFirst ==
  \A k \in 1..Len(outcomes) :
    ~outcomes[k].raised
      => outcomes[k].details.CorrespondingAuthorEmail = ChosenEmail(FoundEmails(articles[k]))

\* two records have been extracted: one with two different non-academic
\* e-mails, one with a non-academic e-mail between two academic ones
C7_Witness ==
  /\ Len(outcomes) = 2
  /\ ~outcomes[1].raised /\ ~outcomes[2].raised
  /\ LET f == FoundEmails(articles[1])
         g == FoundEmails(articles[2])
     IN  /\ Len(f) = 2 /\ NonAcademicEmails(f) = f /\ f[1] # f[2]
         /\ Len(g) = 3 /\ Len(NonAcademicEmails(g)) = 1

\* the authors of the commercial entries among the first n index pairs
RECURSIVE PairedAuthors(_, _, _)
PairedAuthors(au, ad, n) ==
  IF n = 0 THEN <<>>
  ELSE PairedAuthors(au, ad, n - 1)
         \o (IF /\ n <= Len(au) /\ n <= Len(ad)
                /\ ~is_academic_affiliation(ad[n])
                /\ is_company_affiliation(ad[n])
             THEN <<au[n]>>
             ELSE <<>>)

\* the indices the analyzer may use after n entries: in range of both lists,
\* with a non-empty affiliation
PairedIndices(au, ad, n) ==
  { k \in 1..n : k <= Len(au) /\ k <= Len(ad) /\ ad[k] # <<>> }

\* C8: for author and affiliation lists of any lengths the analyzer uses
\* only the indices both lists have and whose affiliation is not empty,
\* gives the affiliation at an index only to the author at that index, and
\* never raises; the other entries add no author, company or e-mail.
C8_IndexPairing ==
  /\ exc # "IndexError"
  /\ (pc = "analyze" /\ ~MissingLists)
       => LET used == PairedIndices(authors, affiliations, i - 1)
          IN  /\ non_academic_authors = PairedAuthors(authors, affiliations, i - 1)
              /\ \A c \in company_affiliations :
                   \E k \in used : extract_company_name(affiliations[k]) = Some(c)
              /\ \/ corresponding_email = None
                 \/ \E k \in used : email_match(affiliations[k]) = corresponding_email

\* a record with more authors than affiliations has been extracted, and the
\* loop has passed an affiliation of a company, with an e-mail, that has no
\* author
C8_Witness ==
  /\ Len(outcomes) = 1 /\ idx = 2
  /\ ~outcomes[1].raised
  /\ Len(Items(articles[1].AU)) > Len(Items(articles[1].AD))
  /\ outcomes[1].authors # <<>>
  /\ pc = "analyze" /\ ~MissingLists /\ LoopDone
  /\ \E k \in 1..Len(affiliations) :
       /\ k > Len(authors)
       /\ is_company_affiliation(affiliations[k])
       /\ ~is_academic_affiliation(affiliations[k])
       /\ ~email_match(affiliations[k]).isNone

\* C9: parse_publication_date never raises, whatever the date fields hold
\* (absent, a string, a list of strings): it returns a string, the empty
\* string when no field yields a date.
C9_DateNeverRaises ==
  /\ publication_date.out # "raise"
  /\ (pc = "analyze" /\ \A k \in 1..4 : ~Truth(date_fields(article)[k]))
       => publication_date.value = <<>>

\* YYYY-MM-DD
IsYMD(s) ==
  /\ Len(s) = 10
  /\ \A k \in 1..10 : IF k \in {5, 8} THEN s[k] = "-" ELSE s[k] \in DigitChars

\* C10: the PublicationDate of a summary record is the empty string or of
\* the form YYYY-MM-DD.
C10_DateFormat ==
  \A k \in 1..Len(outcomes) :
    ~outcomes[k].raised
      => \/ outcomes[k].details.PublicationDate = <<>>
         \/ IsYMD(outcomes[k].details.PublicationDate)


\* a date field that is absent, empty, or failed every parsing attempt
Exhausted(v) == ~HasField(v) \/ ~Truth(v) \/ try_field(v) = Continue

\* the four date fields of a record, highest priority first
Priority(art) == <<art.DP, art.DEP, art.EDAT, art.MHDA>>

\* the record without its date field of priority k
WithoutField(art, k) ==
  CASE k = 1 -> [art EXCEPT !.DP = Absent]
    [] k = 2 -> [art EXCEPT !.DEP = Absent]
    [] k = 3 -> [art EXCEPT !.EDAT = Absent]
    [] k = 4 -> [art EXCEPT !.MHDA = Absent]

\* C11: parse_publication_date consults DP, DEP, EDAT, MHDA in that order:
\* its result is the value of the first field that is present, non-empty and
\* yields a value; a field below one that is not exhausted has no influence
\* on the result; the result is the empty string when all four are exhausted.
C11_DatePriority ==
  pc \in {"analyze", "except"} =>
    LET f == Priority(article)
    IN  /\ \A k \in 1..4 :
             (try_field(f[k]).out = "return" /\ \A j \in 1..(k - 1) : Exhausted(f[j]))
               => publication_date = try_field(f[k])
        /\ \A k \in 1..4 :
             (\E j \in 1..(k - 1) : ~Exhausted(f[j]))
               => parse_publication_date(WithoutField(article, k)) = publication_date
        /\ (\A k \in 1..4 : Exhausted(f[k])) => publication_date = Return(<<>>)

\* a full date that fails every format, then an electronic date that is
\* used; and a record whose full date makes its electronic date irrelevant
C11_Witness ==
  /\ Len(articles) = 2 /\ idx = 2 /\ pc = "analyze"
  /\ Truth(article.DP) /\ try_field(article.DP) = Continue
  /\ publication_date = try_field(article.DEP)
  /\ publication_date.value # <<>>
  /\ try_field(articles[1].DP).out = "return"
  /\ try_field(articles[1].DEP).out = "return"
  /\ try_field(articles[1].DEP) # try_field(articles[1].DP)
  /\ ~outcomes[1].raised
  /\ outcomes[1].details.PublicationDate = try_field(articles[1].DP).value

\* the strictly increasing maps from the positions of the output into the
\* positions of the input list
Embeddings(n, m) ==
  { f \in [1..n -> 1..m] : \A a, b \in 1..n : a < b => f[a] < f[b] }

\* C12: the list returned by filter_papers is an order-preserving
\* subsequence of the per-record extractions of the input list: each input
\* record contributes at most one summary record, and the summary records
\* stand in the relative order of their input records.
C12_OrderPreservation ==
  /\ Len(outcomes) <= Len(articles)
  /\ \E f \in Embeddings(Len(results), Len(outcomes)) :
       \A r \in 1..Len(results) :
         /\ ~outcomes[f[r]].raised
         /\ results[r] = outcomes[f[r]].details
         /\ results[r].PubmedID = Get(articles[f[r]].PMID, Str(<<>>))
         /\ results[r].Title = Get(articles[f[r]].TI, Str(<<>>))

\* two different records were extracted and both are in the output
C12_Witness ==
  /\ pc = "done"
  /\ Len(articles) = 2 /\ Len(results) = 2
  /\ results[1] # results[2]
  /\ results[1] = outcomes[1].details
  /\ results[2] = outcomes[2].details

\* C13: extract_paper_details run twice on the same raw record yields the
\* same summary record in all six fields, the order of the names joined
\* into CompanyAffiliation(s) included, and the same list of authors.
C13_ExtractionIdempotent ==
  (Len(outcomes) = 2 /\ articles[1] = articles[2]) => outcomes[1] = outcomes[2]

\* the company names extracted from the first n affiliation entries of a
\* record, in the order of the entries, each name at its first entry only
RECURSIVE FirstSeen(_, _)
FirstSeen(art, n) ==
  IF n = 0 THEN <<>>
  ELSE LET before == FirstSeen(art, n - 1)
           affiliation == Items(art.AD)[n]
           company == extract_company_name(affiliation)
       IN  IF /\ n <= Len(Items(art.AU))
              /\ affiliation # <<>>
              /\ ~is_academic_affiliation(affiliation)
              /\ is_company_affiliation(affiliation)
              /\ Truthy(company)
              /\ \A k \in 1..Len(before) : before[k] # company.s
           THEN Append(before, company.s)
           ELSE before

\* C14: the companies of a summary record are the distinct extracted company
\* names in first-seen order, that is ordered by the lowest affiliation index
\* at which each name was extracted, joined with "; ".
C14_CompanyOrder ==
  \A k \in 1..Len(outcomes) :
    (~outcomes[k].raised /\ HasField(articles[k].AU) /\ HasField(articles[k].AD))
      => outcomes[k].details.CompanyAffiliations =
           Join(Semicolon, FirstSeen(articles[k], Len(Items(articles[k].AD))))

\* s holds a term of the commercial vocabulary, letter case ignored
HasCommercialTerm(s) ==
  \E keyword \in PHARMA_BIOTECH_KEYWORDS :
    \E p \in 1..(Len(s) - Len(keyword) + 1) :
      \A k \in 1..Len(keyword) : LowerChar(s[p + k - 1]) = keyword[k]

\* C15: an affiliation that holds a commercial term and no academic term is
\* classified commercial and extract_company_name returns a non-empty string
\* for it (never None, never the empty string), so that the author counted
\* for it comes with a company name in the set of companies.
C15_CompanyNameNonEmpty ==
  pc = "analyze" =>
    \A k \in 1..(i - 1) :
      (/\ k <= Len(authors)
       /\ HasCommercialTerm(affiliations[k])
       /\ ~HasAcademicTerm(affiliations[k]))
        => /\ commercial(affiliations[k])
           /\ ~extract_company_name(affiliations[k]).isNone
           /\ extract_company_name(affiliations[k]).s # <<>>
           /\ extract_company_name(affiliations[k]).s \in company_affiliations

\* the identifiers carried by the error entries of the log, in order
ErrorEntries ==
  LET errors == SelectSeq(log, LAMBDA entry : entry.level = "ERROR")
  IN  [k \in 1..Len(errors) |-> errors[k].arg]

\* the identifiers of the records whose extraction raised, in order
RECURSIVE RaisedIdentifiers(_)
RaisedIdentifiers(n) ==
  IF n = 0 THEN <<>>
  ELSE IF outcomes[n].raised
  THEN Append(RaisedIdentifiers(n - 1),
              Get(articles[n].PMID, Str(<<"u", "n", "k", "n", "o", "w", "n">>)))
  ELSE RaisedIdentifiers(n - 1)

\* C16: whenever the extraction of a record raises inside filter_papers,
\* with debug on or off, the failure is logged as an error entry that carries
\* the PMID of the record, or "unknown" when it has none, and the record is
\* not in the output.
C16_FailureLogged ==
  /\ ErrorEntries = RaisedIdentifiers(Len(outcomes))
  /\ \A k \in 1..Len(outcomes) : outcomes[k].raised => ~outcomes[k].kept
  /\ Len(results) <= Cardinality({k \in 1..Len(outcomes) : ~outcomes[k].raised})

\* the names of the stages main has called, in order
CalledStages == [k \in 1..Len(calls) |-> calls[k].fn]

\* main returns 1 when a stage raised an Exception and 130 when one raised
\* KeyboardInterrupt, a stage that raised is the last one called, and main
\* returns 0 only after fetch_papers, filter_papers and the sink, in that
\* order, each called once
PipelineWith(sink) ==
  /\ exit_code = {0} => CalledStages = <<"fetch_papers", "filter_papers", sink>>
  /\ \A k \in 1..Len(calls) : calls[k].outcome # "return" => k = Len(calls)
  /\ CalledStages \in {<<>>, <<"fetch_papers">>, <<"fetch_papers", "filter_papers">>,
                       <<"fetch_papers", "filter_papers", sink>>}
  /\ main_pc = "returned" =>
       /\ (\E k \in 1..Len(calls) : calls[k].outcome = "Exception") => exit_code = {1}
       /\ (\E k \in 1..Len(calls) : calls[k].outcome = "KeyboardInterrupt")
            => exit_code = {130}
       /\ (\A k \in 1..Len(calls) : calls[k].outcome = "return") => exit_code \in {{0}, {1}}

\* C17 as stated: main returns 0 only after it has called fetch_papers once,
\* then filter_papers once, then exactly one sink, export_to_csv when
\* -f/--file is given and print_csv otherwise; when a stage raises an
\* Exception main returns 1 and calls no later stage; a KeyboardInterrupt
\* yields 130.
C17_SinkWhenFileGiven ==
  PipelineWith(IF ~argv.file.isNone THEN "export_to_csv" ELSE "print_csv")

\* C17, amended: the sink is export_to_csv when -f/--file is given with a
\* non-empty value, and print_csv when it is not given or given empty.
C17_SinkWhenFileNonEmpty ==
  /\ PipelineWith(IF ~argv.file.isNone /\ argv.file.s # <<>>
                  THEN "export_to_csv" ELSE "print_csv")
  /\ \A k \in 1..Len(calls) :
       calls[k].fn = "export_to_csv" =>
         calls[k].arg.s \in {argv.file.s, <<"d", "a", "t", "a", "/">> \o argv.file.s}

\* main has returned 0 after writing the bare file name under data/
C17_Witness ==
  /\ exit_code = {0}
  /\ ~argv.file.isNone /\ dirname(argv.file.s) = <<>>
  /\ Len(calls) = 3
  /\ calls[3].fn = "export_to_csv"
  /\ calls[3].arg.s = <<"d", "a", "t", "a", "/">> \o argv.file.s

\* the lists of a list, one after the other
RECURSIVE Flatten(_)
Flatten(lists) ==
  IF lists = <<>> THEN <<>> ELSE lists[1] \o Flatten(Tail(lists))

\* C18: every record returned by fetch_article_details holds the identifier
\* under the key PubmedID and the title under the key Title, with the values
\* of the parsed MEDLINE fields PMID and TI, one returned record per parsed
\* record.
C18_ReturnedKeys ==
  \A returned \in fetch_result :
    /\ Len(returned) = Len(Flatten(parsed))
    /\ \A k \in 1..Len(returned) :
         /\ "PubmedID" \in DOMAIN returned[k]
         /\ "Title" \in DOMAIN returned[k]
         /\ returned[k].PubmedID = Flatten(parsed)[k].PMID
         /\ returned[k].Title = Flatten(parsed)[k].TI

\* the text after the first "@" of an address that has one
AfterFirstAt(email) ==
  LET ats == {k \in 1..Len(email) : email[k] = "@"}
      first == CHOOSE k \in ats : \A j \in ats : k <= j
  IN  SubSeq(email, first + 1, Len(email))

\* s holds a term of the academic-domain vocabulary, letter case ignored
HasAcademicDomainTerm(s) ==
  \E term \in ACADEMIC_EMAIL_DOMAINS :
    \E p \in 1..(Len(s) - Len(term) + 1) :
      \A k \in 1..Len(term) : LowerChar(s[p + k - 1]) = term[k]

\* C19: is_academic_email returns true exactly when the address holds an
\* "@" and the text after the first "@" holds, letter case ignored, a term of
\* the academic-domain vocabulary; it returns false for the empty string and
\* for a string without "@".
C19_DomainAfterFirstAt ==
  \A returned \in call_ret :
    returned = (/\ \E k \in 1..Len(call_arg) : call_arg[k] = "@"
                /\ HasAcademicDomainTerm(AfterFirstAt(call_arg)))

\* the value of the first date field of the record that is present and not
\* empty; the empty string when there is none
ChosenValue(art) ==
  LET f == Priority(art)
      present == {k \in 1..4 : Truth(f[k])}
  IN  IF present = {} THEN <<>>
      ELSE f[CHOOSE k \in present : \A j \in present : k <= j].s

\* YYYY, Mon, DD
IsYear(tok) == Len(tok) = 4 /\ IsDigits(tok)
IsMonth(tok) == \E m \in 1..12 : MonthAbbrs[m] = Lower(tok)
IsDay(tok) == Len(tok) \in {1, 2} /\ IsDigits(tok)

\* the number of the month, in two digits
MonthDigits(tok) == Pad2(CHOOSE m \in 1..12 : MonthAbbrs[m] = Lower(tok))

\* the day in two digits
DayDigits(tok) == Pad2(ToInt(tok))

\* the tokens name a date of the calendar, in a year from 1000 on
IsCalendarDate(tok) ==
  /\ ToInt(tok[1]) >= 1000
  /\ Len(tok) = 3 =>
       /\ ToInt(tok[3]) >= 1
       /\ ToInt(tok[3]) <= DaysIn(ToInt(tok[1]),
                                  CHOOSE m \in 1..12 : MonthAbbrs[m] = Lower(tok[2]))

\* what the dispatch on the number of tokens yields; with calendar_only,
\* for the values that name a date of the calendar only
DispatchFor(calendar_only) ==
  \A returned \in call_ret :
    LET tok == Split(ChosenValue(call_arg))
        meant == calendar_only => IsCalendarDate(tok)
    IN  /\ (Len(tok) = 3 /\ IsYear(tok[1]) /\ IsMonth(tok[2]) /\ IsDay(tok[3]) /\ meant)
             => returned = Return(tok[1] \o <<"-">> \o MonthDigits(tok[2])
                                         \o <<"-">> \o DayDigits(tok[3]))
        /\ (Len(tok) = 2 /\ IsYear(tok[1]) /\ IsMonth(tok[2]) /\ meant)
             => returned = Return(tok[1] \o <<"-">> \o MonthDigits(tok[2])
                                         \o <<"-", "0", "1">>)
        /\ (Len(tok) = 1 /\ IsYear(tok[1]))
             => returned = Return(tok[1] \o <<"-", "0", "1", "-", "0", "1">>)
        /\ (\A k \in 1..4 : ~HasField(Priority(call_arg)[k]))
             => returned = Return(<<>>)

Qualifying(n) ==
  { k \in 1..n :
      /\ k <= Len(authors)
      /\ k <= Len(affiliations)
      /\ affiliations[k] # <<>>
      /\ ~is_academic_affiliation(affiliations[k])
      /\ is_company_affiliation(affiliations[k]) }

\* the r-th smallest element of a set of numbers
NthOf(S, r) == CHOOSE k \in S : Cardinality({j \in S : j <= k}) = r

\* C21: after any prefix of the affiliation entries, the non-academic
\* authors hold exactly one entry per processed qualifying index, in
\* increasing order of the indices and with repeated names kept, and the
\* companies hold each name extracted at those indices once.
C21_Accumulation ==
  (pc = "analyze" /\ ~MissingLists) =>
    LET done == Qualifying(i - 1)
        companies == list_of_set(company_affiliations, hashseed)
    IN  /\ Len(non_academic_authors) = Cardinality(done)
        /\ \A r \in 1..Len(non_academic_authors) :
             non_academic_authors[r] = authors[NthOf(done, r)]
        /\ company_affiliations =
             { extract_company_name(affiliations[k]).s :
                 k \in {j \in done : Truthy(extract_company_name(affiliations[j]))} }
        /\ \A a, b \in 1..Len(companies) : companies[a] = companies[b] => a = b
        /\ {companies[k] : k \in 1..Len(companies)} = company_affiliations

\* one author named three times, for three company lines of which two
\* give the same company
C21_Witness ==
  /\ pc = "analyze" /\ ~MissingLists /\ LoopDone
  /\ Len(non_academic_authors) = 3
  /\ non_academic_authors[1] = non_academic_authors[2]
  /\ non_academic_authors[2] = non_academic_authors[3]
  /\ Cardinality(company_affiliations) = 2
  /\ extract_company_name(affiliations[1]) = extract_company_name(affiliations[3])

\* the ids a request asks for
IdsOf(request) == SplitOn(request, {","})

\* the ids of the requests made so far, one request after the other
RequestedIds == Flatten([k \in 1..Len(requests) |-> IdsOf(requests[k])])

\* C22: for n PMIDs fetch_article_details makes ceil(n/50) efetch requests,
\* none for n = 0, each for at most 50 consecutive PMIDs, so that every PMID
\* is requested once and in input order; what it returns is the records of
\* the requests, one request after the other; when a request raises, the
\* exception leaves the function and nothing is returned.
C22_Batching ==
  /\ \A k \in 1..Len(requests) :
       /\ Len(IdsOf(requests[k])) >= 1
       /\ Len(IdsOf(requests[k])) <= 50
  /\ Len(RequestedIds) <= Len(pmids)
  /\ RequestedIds = SubSeq(pmids, 1, Len(RequestedIds))
  /\ \A returned \in fetch_result :
       /\ Len(requests) = (Len(pmids) + 49) \div 50
       /\ RequestedIds = pmids
       /\ returned = Flatten(parsed)
       /\ Len(parsed) = Len(requests)
  /\ fetch_pc \in {"except", "raised"} =>
       /\ fetch_result = {}
       /\ Len(parsed) = Len(requests) - 1
  /\ fetch_pc = "returned" => fetch_result # {}

\* 101 ids were fetched with three requests, the last one for the id 101
\* alone, and the server did not know the first id of the second request
C22_Witness ==
  /\ fetch_pc = "returned"
  /\ Len(pmids) = 101
  /\ Len(requests) = 3
  /\ requests[3] = <<"1", "0", "1">>
  /\ Len(parsed[1]) = 50 /\ Len(parsed[2]) = 49 /\ Len(parsed[3]) = 1
  /\ \E returned \in fetch_result : Len(returned) = 100

\* the tokens are what strptime accepts for '%Y %b' or '%Y %b %d': a year of
\* four digits, the abbreviation of a month and, as third token, a day of
\* that month
ParsesAsTokens(tok) ==
  /\ Len(tok) \in {2, 3}
  /\ IsYear(tok[1]) /\ ToInt(tok[1]) >= 1
  /\ IsMonth(tok[2])
  /\ Len(tok) = 3 =>
       /\ IsDay(tok[3])
       /\ ToInt(tok[3]) >= 1
       /\ ToInt(tok[3]) <= DaysIn(ToInt(tok[1]),
                                  CHOOSE m \in 1..12 : MonthAbbrs[m] = Lower(tok[2]))

====
